---- MODULE Spec2Model ----
(***************************************************************************)
(* AddressTranslator of ns-3.25/src/uan/model/uan-address-translator.cc:   *)
(* a forward table storeMap (Mac48Address, keyed by a std::string built    *)
(* from its raw bytes, -> UanAddress) and a reverse table getMap (the one  *)
(* byte of a UanAddress -> Mac48Address), with the three operations        *)
(* translate, getM48 and remove.                                           *)
(***************************************************************************)
EXTENDS Integers, Sequences, FiniteSets, TLC

VARIABLES storeMap, getMap, nextUan, macId, last, given

vars == <<storeMap, getMap, nextUan, macId, last, given>>

(***************************************************************************)
(* Bounds of the model.                                                    *)
(***************************************************************************)
\* number of representable non-broadcast short addresses (255 in a uint8_t)
MaxShort == 2
\* number of placeholder hardware addresses getM48 may mint in a run
MaxMacAlloc == 2

(***************************************************************************)
(* Address values.                                                         *)
(***************************************************************************)
\* a Mac48Address is its six bytes, m_address[0..5]
MacLen == 6

\* Mac48Address ("ff:ff:ff:ff:ff:ff")
BroadcastHw == <<255, 255, 255, 255, 255, 255>>

\* UanAddress::GetBroadcast ()
BroadcastShort == 255

\* the non-broadcast short addresses
Shorts == 0 .. (MaxShort - 1)

\* 00:11:22:33:44:55 : first byte zero
HwA == <<0, 17, 34, 51, 68, 85>>
\* 66:77:88:99:aa:bb : no zero byte
HwB == <<102, 119, 136, 153, 170, 187>>
\* 00:00:00:00:00:01 : first byte zero, also the first value Allocate mints
HwC == <<0, 0, 0, 0, 0, 1>>
\* the hardware addresses the callers pass in
HwInputs == {HwA, HwB, HwC}

\* Mac48Address::Allocate (): the id, big-endian, in the six address bytes
RECURSIVE ByteOf(_, _)
ByteOf(id, k) == IF k = 0 THEN id % 256 ELSE ByteOf(id \div 256, k - 1)

MacOfId(id) == [i \in 1 .. MacLen |-> ByteOf(id, MacLen - i)]

\* every hardware address a run can meet
AllHw == HwInputs \cup {BroadcastHw} \cup {MacOfId(i) : i \in 1 .. (MaxMacAlloc + 1)}

(***************************************************************************)
(* The std::string key made from char buff[6].                             *)
(***************************************************************************)
\* the bytes of a NUL-terminated C string starting at the head of bytes
RECURSIVE CStr(_)
CStr(bytes) ==
  IF bytes = <<>> \/ Head(bytes) = 0
    THEN <<>>
    ELSE <<Head(bytes)>> \o CStr(Tail(bytes))

\* what may lie on the stack after buff[5] up to the next NUL byte; it is
\* read only when none of the six address bytes is zero
StackTails == {<<>>, <<1>>}

\* std::string key = buff, with tail the stack bytes that follow buff
KeyOf(addr, tail) == CStr(addr \o tail \o <<0>>)

\* the keys a lookup for addr may compute
Keys(addr) == {KeyOf(addr, t) : t \in StackTails}

(***************************************************************************)
(* Table helpers (std::unordered_map).                                     *)
(***************************************************************************)
Has(m, k) == k \in DOMAIN m

Put(m, k, v) == [x \in (DOMAIN m) \cup {k} |-> IF x = k THEN v ELSE m[x]]

Erase(m, k) == [x \in (DOMAIN m) \ {k} |-> m[x]]

EmptyMap == [x \in {} |-> 0]

\* "no address" in a field of the call record that the call does not use
NoHw == <<>>
NoShort == 0 - 1

\* the record of the most recent call: its operation and argument, what it
\* returned, whether its lookup found an entry, whether it raised, and for
\* remove the forward value at entry (oldSa) and the value it read (readSa)
Call(op, hw, sa, retHw, retSa, hit, err, oldSa, readSa) ==
  [op |-> op, hw |-> hw, sa |-> sa, retHw |-> retHw, retSa |-> retSa,
   hit |-> hit, err |-> err, oldSa |-> oldSa, readSa |-> readSa]

Init ==
  /\ storeMap = EmptyMap
  /\ getMap = EmptyMap
  /\ nextUan = 0
  /\ macId = 0
  /\ last = Call("none", NoHw, NoShort, NoHw, NoShort, FALSE, FALSE, NoShort, NoShort)
  /\ given = [h \in HwInputs |-> NoShort]

(***************************************************************************)
(* The allocators: static counters, called without arguments.              *)
(***************************************************************************)
\* UanAddress::Allocate () has no further value to hand out
UanExhausted == nextUan >= MaxShort

\* the value the next UanAddress::Allocate () returns
UanNext == nextUan

\* the value the next Mac48Address::Allocate () returns
MacNext == MacOfId(macId + 1)

(***************************************************************************)
(* translate                                                               *)
(***************************************************************************)
\* translate without its special case for broadcast
IsBroadcastHwNever(addr) == FALSE

IsBroadcastHw(addr) == addr = BroadcastHw

\* given[h]: the short address the first translate (h) since the last remove
\* call returned, NoShort when there was none
Returned(addr, s) ==
  IF addr \in DOMAIN given /\ given[addr] = NoShort
    THEN [given EXCEPT ![addr] = s]
    ELSE given

NoneGiven == [h \in HwInputs |-> NoShort]

Translate(addr) ==
  IF IsBroadcastHw(addr)
    THEN /\ last' = Call("translate", addr, NoShort, NoHw, BroadcastShort,
                          FALSE, FALSE, NoShort, NoShort)
         /\ UNCHANGED <<storeMap, getMap, nextUan, macId, given>>
    ELSE \E tail \in StackTails :
           LET key == KeyOf(addr, tail) IN
           IF Has(storeMap, key)
             THEN /\ last' = Call("translate", addr, NoShort, NoHw, storeMap[key],
                                   TRUE, FALSE, NoShort, NoShort)
                  /\ given' = Returned(addr, storeMap[key])
                  /\ UNCHANGED <<storeMap, getMap, nextUan, macId>>
             ELSE IF UanExhausted
               THEN /\ last' = Call("translate", addr, NoShort, NoHw, NoShort,
                                     FALSE, TRUE, NoShort, NoShort)
                    /\ UNCHANGED <<storeMap, getMap, nextUan, macId, given>>
               ELSE LET translated == UanNext IN
                    /\ nextUan' = nextUan + 1
                    /\ storeMap' = Put(storeMap, key, translated)
                    /\ getMap' = Put(getMap, translated, addr)
                    /\ last' = Call("translate", addr, NoShort, NoHw, translated,
                                     FALSE, FALSE, NoShort, NoShort)
                    /\ given' = Returned(addr, translated)
                    /\ UNCHANGED macId

(***************************************************************************)
(* getM48                                                                  *)
(***************************************************************************)
\* getM48 without its special case for broadcast
IsBroadcastShortNever(addr) == FALSE

IsBroadcastShort(addr) == addr = BroadcastShort

\* control reaches the closing brace of getM48 without a return statement:
\* the caller receives whatever the return slot holds
FallOffReturn(translated) == {translated, HwA, BroadcastHw}

GetM48(addr) ==
  IF IsBroadcastShort(addr)
    THEN /\ last' = Call("getM48", NoHw, addr, BroadcastHw, NoShort,
                          FALSE, FALSE, NoShort, NoShort)
         /\ UNCHANGED <<storeMap, getMap, nextUan, macId, given>>
    ELSE LET key == addr IN
         IF Has(getMap, key)
           THEN /\ last' = Call("getM48", NoHw, addr, getMap[key], NoShort,
                                 TRUE, FALSE, NoShort, NoShort)
                /\ UNCHANGED <<storeMap, getMap, nextUan, macId, given>>
           ELSE /\ macId < MaxMacAlloc
                /\ LET translated == MacNext IN
                   /\ macId' = macId + 1
                   /\ getMap' = Put(getMap, key, translated)
                   /\ \E tail \in StackTails :
                        storeMap' = Put(storeMap, KeyOf(translated, tail), addr)
                   /\ \E ret \in FallOffReturn(translated) :
                        last' = Call("getM48", NoHw, addr, ret, NoShort,
                                     FALSE, FALSE, NoShort, NoShort)
                /\ UNCHANGED <<nextUan, given>>

(***************************************************************************)
(* remove                                                                  *)
(***************************************************************************)
\* got->second read after storeMap.erase (key) has destroyed the node got
\* points to: the old value if the freed node is still intact, else any byte
DanglingRead(old) == {old} \cup Shorts \cup {BroadcastShort}

Remove(addr) ==
  \E tail \in StackTails :
    LET key == KeyOf(addr, tail) IN
    IF Has(storeMap, key)
      THEN /\ storeMap' = Erase(storeMap, key)
           /\ \E translated \in DanglingRead(storeMap[key]) :
                /\ getMap' = Erase(getMap, translated)
                /\ last' = Call("remove", addr, NoShort, NoHw, NoShort,
                                 TRUE, FALSE, storeMap[key], translated)
           /\ given' = NoneGiven
           /\ UNCHANGED <<nextUan, macId>>
      ELSE /\ last' = Call("remove", addr, NoShort, NoHw, NoShort,
                            FALSE, FALSE, NoShort, NoShort)
           /\ given' = NoneGiven
           /\ UNCHANGED <<storeMap, getMap, nextUan, macId>>

Next ==
  \/ \E addr \in HwInputs \cup {BroadcastHw} : Translate(addr)
  \/ \E addr \in Shorts \cup {BroadcastShort} : GetM48(addr)
  \/ \E addr \in HwInputs \cup {BroadcastHw} : Remove(addr)

Spec == Init /\ [][Next]_vars

(***************************************************************************)
(* Properties.                                                             *)
(***************************************************************************)
Range(m) == {m[k] : k \in DOMAIN m}

\* the forward table maps hardware address h to short address s
FwdMaps(h, s) == \E k \in Keys(h) : Has(storeMap, k) /\ storeMap[k] = s

\* the reverse table maps short address s to hardware address h
RevMaps(s, h) == Has(getMap, s) /\ getMap[s] = h

\* the hardware addresses getM48 has minted so far
Minted == {MacOfId(i) : i \in 1 .. macId}

\* the most recent call was translate on a non-broadcast address and returned
CalledTranslate(c) == c.op = "translate" /\ c.hw # BroadcastHw /\ ~c.err

\* the most recent call was getM48 on a non-broadcast address
CalledGetM48(c) == c.op = "getM48" /\ c.sa # BroadcastShort

\* C1: after any sequence of translate, getM48 and remove calls the forward
\* and the reverse table are exact duals: the forward table maps h to s if
\* and only if the reverse table maps s to h.
C1_TablesAreDuals ==
  \A h \in AllHw : \A s \in Shorts : FwdMaps(h, s) <=> RevMaps(s, h)

\* C2: a getM48 call that misses on a non-broadcast short address returns the
\* hardware address it has just stored in the record of that short address.
C2_MissReturnsStored ==
  (CalledGetM48(last) /\ ~last.hit) => RevMaps(last.sa, last.retHw)

\* C3: two translate (h) calls with no remove call between them return the
\* same short address, whatever translate and getM48 calls lie between them:
\* every translate (h) returns what the first one since the last remove did.
C3_StableWithoutRemove ==
  (CalledTranslate(last) /\ last.hw \in HwInputs) => last.retSa = given[last.hw]

\* C4: distinct non-broadcast hardware addresses translated with no remove
\* call in the sequence are given pairwise distinct short addresses.
C4_DistinctShorts ==
  \A h1 \in HwInputs : \A h2 \in HwInputs :
    (h1 # h2 /\ given[h1] # NoShort /\ given[h2] # NoShort) => given[h1] # given[h2]

\* C5: translate (ff:ff:ff:ff:ff:ff) returns the short broadcast address and
\* getM48 (short broadcast) returns ff:ff:ff:ff:ff:ff, and neither call changes
\* the forward table, the reverse table or the two allocators.
C5_BroadcastTransparent ==
  [][ /\ (last'.op = "translate" /\ last'.hw = BroadcastHw)
           => /\ last'.retSa = BroadcastShort
              /\ ~last'.err
              /\ UNCHANGED <<storeMap, getMap, nextUan, macId>>
      /\ (last'.op = "getM48" /\ last'.sa = BroadcastShort)
           => /\ last'.retHw = BroadcastHw
              /\ UNCHANGED <<storeMap, getMap, nextUan, macId>> ]_vars

\* a broadcast translate has just returned while records are stored
C5_Witness ==
  /\ last.op = "translate"
  /\ last.hw = BroadcastHw
  /\ last.retSa = BroadcastShort
  /\ DOMAIN storeMap # {}
  /\ DOMAIN getMap # {}

\* C6: right after remove (h) found a record for h, no record for h remains in
\* either direction: no forward entry for h, no reverse entry with value h.
C6_RemoveErasesBoth ==
  (last.op = "remove" /\ last.hit)
    => /\ \A k \in Keys(last.hw) : ~Has(storeMap, k)
       /\ last.hw \notin Range(getMap)

\* C7: remove (h) for an h that has no record (never translated nor minted,
\* no reverse entry holds it) leaves the forward and the reverse table as
\* they were, whatever other hardware addresses have records.
C7_RemoveUnknownIsNoOp ==
  [][ ( /\ last'.op = "remove"
        /\ last'.hw \in HwInputs
        /\ given[last'.hw] = NoShort
        /\ last'.hw \notin Minted
        /\ last'.hw \notin Range(getMap) )
      => UNCHANGED <<storeMap, getMap>> ]_vars

\* C8: round trip: getM48 (translate (h)) = h for every non-broadcast hardware
\* address h, and translate (getM48 (s)) = s for every non-broadcast short
\* address s (the second call directly follows the first).
C8_RoundTrip ==
  [][ /\ (CalledTranslate(last) /\ last'.op = "getM48" /\ last'.sa = last.retSa)
           => last'.retHw = last.hw
      /\ (CalledGetM48(last) /\ last'.op = "translate" /\ last'.hw = last.retHw)
           => (~last'.err /\ last'.retSa = last.sa) ]_vars

RevKeysOf(m, h) == {s \in DOMAIN m : m[s] = h}

\* C11: after remove (h) found a record of h, the next translate (h) is a miss
\* that allocates, and afterwards the tables hold exactly one record for h:
\* the forward table maps h to the returned value and the only reverse entry
\* whose hardware address is h is keyed by that value.
C11_FreshSingleRecord ==
  [][ ( /\ last.op = "remove" /\ last.hit /\ last.hw \in HwInputs
        /\ last'.op = "translate" /\ last'.hw = last.hw /\ ~last'.err )
      => /\ ~last'.hit
         /\ \A k \in Keys(last'.hw) : Has(storeMap', k) => storeMap'[k] = last'.retSa
         /\ \E k \in Keys(last'.hw) : Has(storeMap', k)
         /\ RevKeysOf(getMap', last'.hw) = {last'.retSa} ]_vars

\* C12: two consecutive translate (h) calls, nothing between them, return the
\* same short address, for every non-broadcast hardware address h.
C12_ConsecutiveIdempotent ==
  [][ (CalledTranslate(last) /\ last'.op = "translate" /\ last'.hw = last.hw)
      => (~last'.err /\ last'.retSa = last.retSa) ]_vars

\* C13: neither table ever contains a broadcast sentinel: ff:ff:ff:ff:ff:ff is
\* no forward key and no reverse value, the short broadcast address is no
\* reverse key and no forward value.
C13_NoBroadcastStored ==
  /\ Keys(BroadcastHw) \cap DOMAIN storeMap = {}
  /\ BroadcastHw \notin Range(getMap)
  /\ BroadcastShort \notin DOMAIN getMap
  /\ BroadcastShort \notin Range(storeMap)

\* a broadcast getM48 has just returned while both tables hold records
C13_Witness ==
  /\ last.op = "getM48"
  /\ last.sa = BroadcastShort
  /\ last.retHw = BroadcastHw
  /\ DOMAIN storeMap # {}
  /\ DOMAIN getMap # {}

\* C14: the forward key is injective: a key stored in the forward table is the
\* key of exactly one hardware address, so a lookup for h hits only an entry
\* stored for h.
C14_KeyInjective ==
  \A k \in DOMAIN storeMap : Cardinality({h \in AllHw : k \in Keys(h)}) <= 1

\* C15: a getM48 miss on s adds exactly one reverse entry (s -> m) and exactly
\* one forward entry (m -> s) and leaves every entry the two tables already
\* had unchanged.
C15_MissAddsOnePair ==
  [][ (CalledGetM48(last') /\ ~last'.hit)
      => /\ ~Has(getMap, last'.sa)
         /\ DOMAIN getMap' = DOMAIN getMap \cup {last'.sa}
         /\ \A x \in DOMAIN getMap : getMap'[x] = getMap[x]
         /\ Cardinality(DOMAIN storeMap') = Cardinality(DOMAIN storeMap) + 1
         /\ \A k \in DOMAIN storeMap : Has(storeMap', k) /\ storeMap'[k] = storeMap[k]
         /\ \E k \in Keys(getMap'[last'.sa]) :
              Has(storeMap', k) /\ storeMap'[k] = last'.sa ]_vars

\* C16: remove (h) changes only the record of h: for every other hardware
\* address h2 with a record h2 <-> s, the reverse entry of s and the forward
\* entries holding s are the same before and after the call.
C16_RemoveTouchesOnlyH ==
  [][ last'.op = "remove"
      => \A s \in DOMAIN getMap :
           getMap[s] # last'.hw
             => /\ Has(getMap', s) /\ getMap'[s] = getMap[s]
                /\ \A k \in DOMAIN storeMap :
                     storeMap[k] = s => (Has(storeMap', k) /\ storeMap'[k] = s) ]_vars

\* C17: the reverse entry remove (h) erases is the one keyed by the short
\* address the forward table mapped h to when the call began: that value is
\* read while the forward entry still exists.
C17_ErasesForwardValue ==
  (last.op = "remove" /\ last.hit) => last.readSa = last.oldSa
====
